---- MODULE Spec2Model ----
(***************************************************************************)
(* A model of src/src/models/client.rs: RequestClient::request, the dual   *)
(* dispatcher Tester::compare and the recursive JSON shape comparator      *)
(* (compare_json_types / compare_json_objects / compare_json_arrays).      *)
(***************************************************************************)
EXTENDS Integers, Sequences, FiniteSets, TLC

VARIABLES pc, endpoint, method, body, sent,
          response_client, response_actual,
          body_client, body_actual, result, trace

vars == <<pc, endpoint, method, body, sent, response_client, response_actual,
          body_client, body_actual, result, trace>>

\* Longest array drawn as a comparator input.
MaxLen == 2

(***************************************************************************)
(* serde_json::Value: a tagged union.  An Object holds its entries as a    *)
(* sequence sorted by key, which is how serde_json::Map (a BTreeMap in the *)
(* default build) stores and iterates them.                                *)
(***************************************************************************)
Null == [tag |-> "Null"]
Bool(x) == [tag |-> "Bool", b |-> x]
Number(x) == [tag |-> "Number", n |-> x]
String(x) == [tag |-> "String", s |-> x]
Array(xs) == [tag |-> "Array", items |-> xs]
Object(es) == [tag |-> "Object", entries |-> es]

\* Option<T>
None == [some |-> FALSE]
Some(x) == [some |-> TRUE, value |-> x]

\* The object keys of the model, in String's (lexicographic) order.
KeyOrder == <<"id", "name">>
Keys == {KeyOrder[i] : i \in 1..Len(KeyOrder)}

\* Map::get
MapGet(map, key) ==
  IF \E i \in 1..Len(map) : map[i].key = key
  THEN Some(map[CHOOSE i \in 1..Len(map) : map[i].key = key].value)
  ELSE None

\* Map::contains_key
MapContainsKey(map, key) == \E i \in 1..Len(map) : map[i].key = key

\* The map whose key set is ks and whose value at k is f[k], entries in key order.
MapOf(ks, f) ==
  LET order == SelectSeq(KeyOrder, LAMBDA k : k \in ks)
  IN [i \in 1..Len(order) |-> [key |-> order[i], value |-> f[order[i]]]]

(***************************************************************************)
(* Result<(), TesterError>                                                 *)
(***************************************************************************)
\* A mismatch that loses the endpoint it belongs to.
JsonTypeMismatch_NoEndpoint(ep, cv, av) ==
  [variant |-> "JsonTypeMismatch", endpoint |-> "",
   client_value |-> cv, actual_value |-> av]

Ok == [variant |-> "Ok"]
JsonTypeMismatch(ep, cv, av) ==
  [variant |-> "JsonTypeMismatch", endpoint |-> ep,
   client_value |-> cv, actual_value |-> av]

(***************************************************************************)
(* The comparator.  Each operator returns the Result together with the     *)
(* trace of what the call did: every compare_json_types invocation and     *)
(* every iteration of the two key loops, in program order.                 *)
(***************************************************************************)
Visit(a, b) == [ev |-> "compare_json_types", a |-> a, b |-> b]
LoopA(key) == [ev |-> "for_map_a", key |-> key]
LoopB(key) == [ev |-> "for_map_b", key |-> key]

Return(r) == [res |-> r, trace |-> <<>>]
After(events, out) == [res |-> out.res, trace |-> events \o out.trace]

RECURSIVE compare_json_types(_, _, _)
RECURSIVE compare_json_objects(_, _, _)
RECURSIVE compare_json_arrays(_, _, _)
RECURSIVE ForMapA(_, _, _, _)
RECURSIVE ForMapB(_, _, _, _)
RECURSIVE ForZip(_, _, _, _)

\* The two sides swapped.
TypesDoNotMatch_Swapped(ep, a, b) ==
  [variant |-> "JsonTypeMismatch", endpoint |-> ep,
   client_value |-> b, actual_value |-> a]

\* client.rs:116-120, the catch-all arm
TypesDoNotMatch(ep, a, b) == JsonTypeMismatch(ep, a, b)

\* The two sides swapped.
MissingInB_Swapped(ep, value_a) ==
  [variant |-> "JsonTypeMismatch", endpoint |-> ep,
   client_value |-> Null, actual_value |-> value_a]

\* client.rs:134-138, a key of map_a that map_b lacks
MissingInB(ep, value_a) == JsonTypeMismatch(ep, value_a, Null)

\* client.rs:144-148, a key of map_b that map_a lacks
MissingInA(ep, map_b, key) == JsonTypeMismatch(ep, Null, MapGet(map_b, key).value)

\* client.rs:161-165
LengthMismatch(ep, arr_a, arr_b) == JsonTypeMismatch(ep, Array(arr_a), Array(arr_b))

compare_json_types(a, b, ep) ==
  After(<<Visit(a, b)>>,
    CASE a.tag = "Object" /\ b.tag = "Object" ->
           compare_json_objects(a.entries, b.entries, ep)
      [] a.tag = "Array" /\ b.tag = "Array" ->
           compare_json_arrays(a.items, b.items, ep)
      [] a.tag = "String" /\ b.tag = "String" -> Return(Ok)
      [] a.tag = "Number" /\ b.tag = "Number" -> Return(Ok)
      [] a.tag = "Bool" /\ b.tag = "Bool" -> Return(Ok)
      [] a.tag = "Null" /\ b.tag = "Null" -> Return(Ok)
      [] OTHER -> Return(TypesDoNotMatch(ep, a, b)))

\* for (key, value_a) in map_a, from the i-th entry on
ForMapA(map_a, map_b, ep, i) ==
  IF i > Len(map_a) THEN ForMapB(map_a, map_b, ep, 1)
  ELSE LET key == map_a[i].key
           value_a == map_a[i].value
           got == MapGet(map_b, key)
       IN After(<<LoopA(key)>>,
            IF got.some
            THEN LET sub == compare_json_types(value_a, got.value, ep)
                 IN IF sub.res = Ok
                    THEN After(sub.trace, ForMapA(map_a, map_b, ep, i + 1))
                    ELSE sub
            ELSE Return(MissingInB(ep, value_a)))

\* The second loop with its test inverted (the ! dropped).
ForMapB_Inverted(map_a, map_b, ep, i) ==
  IF i > Len(map_b) THEN Return(Ok)
  ELSE LET key == map_b[i].key
       IN After(<<LoopB(key)>>,
            IF MapContainsKey(map_a, key)
            THEN Return(MissingInA(ep, map_b, key))
            ELSE ForMapB(map_a, map_b, ep, i + 1))

\* for key in map_b.keys(), from the i-th key on
ForMapB(map_a, map_b, ep, i) ==
  IF i > Len(map_b) THEN Return(Ok)
  ELSE LET key == map_b[i].key
       IN After(<<LoopB(key)>>,
            IF ~MapContainsKey(map_a, key)
            THEN Return(MissingInA(ep, map_b, key))
            ELSE ForMapB(map_a, map_b, ep, i + 1))

\* The two loops in the other order: map_b's keys are scanned first.
compare_json_objects_BFirst(map_a, map_b, ep) ==
  LET scan == ForMapB(map_a, map_b, ep, 1)
  IN IF scan.res = Ok THEN After(scan.trace, ForMapA(map_a, map_b, ep, 1)) ELSE scan

compare_json_objects(map_a, map_b, ep) == ForMapA(map_a, map_b, ep, 1)

\* for (elem_a, elem_b) in arr_a.iter().zip(arr_b.iter()), from the i-th pair on
ForZip(arr_a, arr_b, ep, i) ==
  IF i > Len(arr_a) \/ i > Len(arr_b) THEN Return(Ok)
  ELSE LET sub == compare_json_types(arr_a[i], arr_b[i], ep)
       IN IF sub.res = Ok
          THEN After(sub.trace, ForZip(arr_a, arr_b, ep, i + 1))
          ELSE sub

\* The length test left out: zip stops at the shorter array.
compare_json_arrays_NoLengthCheck(arr_a, arr_b, ep) == ForZip(arr_a, arr_b, ep, 1)

\* The length test made after the element loop.
compare_json_arrays_ElementsFirst(arr_a, arr_b, ep) ==
  LET zipped == ForZip(arr_a, arr_b, ep, 1)
  IN IF zipped.res = Ok /\ Len(arr_a) # Len(arr_b)
     THEN After(zipped.trace, Return(LengthMismatch(ep, arr_a, arr_b)))
     ELSE zipped

compare_json_arrays(arr_a, arr_b, ep) ==
  IF Len(arr_a) # Len(arr_b)
  THEN Return(LengthMismatch(ep, arr_a, arr_b))
  ELSE ForZip(arr_a, arr_b, ep, 1)

(***************************************************************************)
(* Comparator inputs.                                                      *)
(***************************************************************************)
\* Two paths of the endpoint catalogue (endpoints.rs).
Endpoints == {"/admin/quiz", "/admin/quiz/list"}

Scalars == {Null, Bool(TRUE), Bool(FALSE), Number(1), Number(2), String("1"), String("Quiz A")}

ArraysOver(S) == UNION {{Array(xs) : xs \in [1..n -> S]} : n \in 0..MaxLen}
ObjectsOver(S) == UNION {{Object(MapOf(ks, f)) : f \in [ks -> S]} : ks \in SUBSET Keys}

\* Values nested one level deeper are built over this smaller set.
Inner == {Number(1), Array(<<>>), Array(<<Number(1)>>), Object(<<>>),
          Object(<<[key |-> "id", value |-> Number(1)]>>),
          Object(<<[key |-> "id", value |-> String("1")]>>)}

Values == Scalars \cup ArraysOver(Scalars) \cup ObjectsOver(Scalars)
                  \cup ArraysOver(Inner) \cup ObjectsOver(Inner)

(***************************************************************************)
(* The comparator called on its own: a = body_client, b = body_actual.     *)
(***************************************************************************)
InitShape ==
  /\ pc = "call"
  /\ endpoint \in Endpoints
  /\ method = None
  /\ body = None
  /\ sent = <<>>
  /\ response_client = None
  /\ response_actual = None
  /\ body_client \in Values
  /\ body_actual \in Values
  /\ result = None
  /\ trace = <<>>

CallCompareJsonTypes ==
  /\ pc = "call"
  /\ LET out == compare_json_types(body_client, body_actual, endpoint)
     IN /\ result' = out.res
        /\ trace' = out.trace
  /\ pc' = "returned"
  /\ UNCHANGED <<endpoint, method, body, sent, response_client, response_actual,
                 body_client, body_actual>>

NextShape == CallCompareJsonTypes

SpecShape == InitShape /\ [][NextShape]_vars

\* The end-to-end scenario of the specification: the candidate answers
\* {"id":"1","name":"Quiz A"}, the reference {"id":1,"name":"Quiz A"}.
ScenarioCandidate ==
  Object(<<[key |-> "id", value |-> String("1")],
           [key |-> "name", value |-> String("Quiz A")]>>)
ScenarioReference ==
  Object(<<[key |-> "id", value |-> Number(1)],
           [key |-> "name", value |-> String("Quiz A")]>>)


(***************************************************************************)
(* RequestClient::request                                                  *)
(***************************************************************************)
Methods == {"GET", "DELETE", "POST", "PUT", "PATCH"}

\* Tester::new(test_url, server_url): client talks to the candidate, actual to
\* the reference.
ClientBaseUrl == "http://candidate"
ActualBaseUrl == "http://reference"
BaseUrl(to) == IF to = "client" THEN ClientBaseUrl ELSE ActualBaseUrl

\* format!("{}/{}", self.base_url, endpoint)
Url(base_url, ep) == base_url \o "/" \o ep

\* serde_urlencoded::to_string: the top level must be a map and every value a
\* plain scalar; the pairs are written in the map's order, each value as text.
UrlEncodable(data) ==
  /\ data.tag = "Object"
  /\ \A i \in 1..Len(data.entries) :
       data.entries[i].value.tag \in {"Bool", "Number", "String"}
ScalarText(v) ==
  CASE v.tag = "Bool" -> IF v.b THEN "true" ELSE "false"
    [] v.tag = "Number" -> ToString(v.n)
    [] v.tag = "String" -> v.s
UrlEncode(data) ==
  [i \in 1..Len(data.entries) |->
     <<data.entries[i].key, ScalarText(data.entries[i].value)>>]

\* The request as built by lines 24-43, or the panic of the unwrap at line 32.
Panic == [variant |-> "Panic"]
BuildRequest(to, m, ep, data) ==
  LET plain == [to |-> to, method |-> m, url |-> Url(BaseUrl(to), ep),
                args |-> <<m, ep, data>>, query |-> None, json |-> None]
  IN CASE m \in {"GET", "DELETE"} ->
            IF data.some
            THEN IF UrlEncodable(data.value)
                 THEN [plain EXCEPT !.query = Some(<<"data", UrlEncode(data.value)>>)]
                 ELSE Panic
            ELSE plain
       [] m \in {"POST", "PUT"} ->
            IF data.some THEN [plain EXCEPT !.json = Some(data.value)] ELSE plain
       [] OTHER -> plain

\* reqwest::Error, with the step and the URL it comes from
TransportError(kind, url) == [variant |-> "Error", kind |-> kind, url |-> url]

\* What a backend answers: a body that is a JSON document, or one that is not.
JsonBody(v) == [is_json |-> TRUE, document |-> v]
NotJson == [is_json |-> FALSE]

\* Response::json
ParseJson(response, url) ==
  IF response.is_json THEN [ok |-> TRUE, value |-> response.document]
  ELSE [ok |-> FALSE, error |-> TransportError("decode", url)]

(***************************************************************************)
(* Tester::compare, one action per await point.                            *)
(***************************************************************************)
Bodies == {None,
           Some(Object(<<[key |-> "name", value |-> String("quiz")]>>)),
           Some(Object(<<[key |-> "id", value |-> Array(<<Number(1)>>)]>>))}

ResponseBodies == {ScenarioCandidate, ScenarioReference,
                   Array(<<Number(1), Number(2), Number(3)>>),
                   Array(<<Number(1), Number(2)>>),
                   Object(<<[key |-> "id", value |-> Number(2)]>>)}
Responses == {JsonBody(v) : v \in ResponseBodies} \cup {NotJson}

Init ==
  /\ pc = "request_client"
  /\ endpoint \in Endpoints
  /\ method \in Methods
  /\ body \in Bodies
  /\ sent = <<>>
  /\ response_client = None
  /\ response_actual = None
  /\ body_client = None
  /\ body_actual = None
  /\ result = None
  /\ trace = <<>>

\* request(): build the request and send it (lines 24-45, up to the await)
Send(to, next) ==
  LET request == BuildRequest(to, method, endpoint, body)
  IN IF request = Panic
     THEN /\ pc' = "panicked"
          /\ result' = Panic
          /\ UNCHANGED sent
     ELSE /\ pc' = next
          /\ sent' = Append(sent, request)
          /\ UNCHANGED result

\* line 99: self.client.request(method.clone(), endpoint, body), to its await
ClientSend ==
  /\ pc = "request_client"
  /\ Send("client", "await_client")
  /\ UNCHANGED <<endpoint, method, body, response_client, response_actual,
                 body_client, body_actual, trace>>

\* A failed candidate request sent again.
ClientRecv_Retry ==
  /\ pc = "await_client"
  /\ \/ /\ pc' = "request_client"
        /\ UNCHANGED <<response_client, result>>
     \/ \E r \in Responses :
          /\ response_client' = Some(r)
          /\ pc' = "request_actual"
          /\ UNCHANGED result
  /\ UNCHANGED <<endpoint, method, body, sent, response_actual,
                 body_client, body_actual, trace>>

\* line 99: .await?
ClientRecv ==
  /\ pc = "await_client"
  /\ \/ /\ result' = TransportError("request", Url(ClientBaseUrl, endpoint))
        /\ pc' = "returned"
        /\ UNCHANGED response_client
     \/ \E r \in Responses :
          /\ response_client' = Some(r)
          /\ pc' = "request_actual"
          /\ UNCHANGED result
  /\ UNCHANGED <<endpoint, method, body, sent, response_actual,
                 body_client, body_actual, trace>>

\* line 100: self.actual.request(method.clone(), endpoint, body), to its await
ActualSend ==
  /\ pc = "request_actual"
  /\ Send("actual", "await_actual")
  /\ UNCHANGED <<endpoint, method, body, response_client, response_actual,
                 body_client, body_actual, trace>>

\* line 100: .await?
ActualRecv ==
  /\ pc = "await_actual"
  /\ \/ /\ result' = TransportError("request", Url(ActualBaseUrl, endpoint))
        /\ pc' = "returned"
        /\ UNCHANGED response_actual
     \/ \E r \in Responses :
          /\ response_actual' = Some(r)
          /\ pc' = "json_client"
          /\ UNCHANGED result
  /\ UNCHANGED <<endpoint, method, body, sent, response_client,
                 body_client, body_actual, trace>>

\* line 102: response_client.json().await?
ClientJson ==
  /\ pc = "json_client"
  /\ LET parsed == ParseJson(response_client.value, Url(ClientBaseUrl, endpoint))
     IN IF parsed.ok
        THEN /\ body_client' = parsed.value
             /\ pc' = "json_actual"
             /\ UNCHANGED result
        ELSE /\ result' = parsed.error
             /\ pc' = "returned"
             /\ UNCHANGED body_client
  /\ UNCHANGED <<endpoint, method, body, sent, response_client, response_actual,
                 body_actual, trace>>

\* A reference body that does not parse taken as Null instead of returned as
\* an error.
ActualJson_Lenient ==
  /\ pc = "json_actual"
  /\ LET parsed == ParseJson(response_actual.value, Url(ActualBaseUrl, endpoint))
     IN body_actual' = IF parsed.ok THEN parsed.value ELSE Null
  /\ pc' = "compare_json_types"
  /\ UNCHANGED <<endpoint, method, body, sent, response_client, response_actual,
                 body_client, result, trace>>

\* line 103: response_actual.json().await?
ActualJson ==
  /\ pc = "json_actual"
  /\ LET parsed == ParseJson(response_actual.value, Url(ActualBaseUrl, endpoint))
     IN IF parsed.ok
        THEN /\ body_actual' = parsed.value
             /\ pc' = "compare_json_types"
             /\ UNCHANGED result
        ELSE /\ result' = parsed.error
             /\ pc' = "returned"
             /\ UNCHANGED body_actual
  /\ UNCHANGED <<endpoint, method, body, sent, response_client, response_actual,
                 body_client, trace>>

\* line 105: self.compare_json_types(&body_client, &body_actual)
CompareTypes ==
  /\ pc = "compare_json_types"
  /\ LET out == compare_json_types(body_client, body_actual, endpoint)
     IN /\ result' = out.res
        /\ trace' = out.trace
  /\ pc' = "returned"
  /\ UNCHANGED <<endpoint, method, body, sent, response_client, response_actual,
                 body_client, body_actual>>

Next ==
  \/ ClientSend
  \/ ClientRecv
  \/ ActualSend
  \/ ActualRecv
  \/ ClientJson
  \/ ActualJson
  \/ CompareTypes

Spec == Init /\ [][Next]_vars

(***************************************************************************)
(* Vocabulary of the properties.                                           *)
(***************************************************************************)
KeySet(map) == {map[i].key : i \in 1..Len(map)}
ValueAt(map, key) == map[CHOOSE i \in 1..Len(map) : map[i].key = key].value
Rank(key) == CHOOSE i \in 1..Len(KeyOrder) : KeyOrder[i] = key
IsMismatch(r) == r # None /\ r # Ok /\ r.variant = "JsonTypeMismatch"
IsTransportError(r) == r # None /\ r # Ok /\ r.variant = "Error"
Returned == pc = "returned"
BothObjects == body_client.tag = "Object" /\ body_actual.tag = "Object"
BothArrays == body_client.tag = "Array" /\ body_actual.tag = "Array"

\* Shape equality as the data model defines it: same tag, same key set with
\* shape-equal values per key, same length with shape-equal elements pairwise.
RECURSIVE ShapeEqual(_, _)
ShapeEqual(x, y) ==
  /\ x.tag = y.tag
  /\ x.tag = "Object" =>
       /\ KeySet(x.entries) = KeySet(y.entries)
       /\ \A k \in KeySet(x.entries) :
            ShapeEqual(ValueAt(x.entries, k), ValueAt(y.entries, k))
  /\ x.tag = "Array" =>
       /\ Len(x.items) = Len(y.items)
       /\ \A i \in 1..Len(x.items) : ShapeEqual(x.items[i], y.items[i])

\* Every value that occurs in v, v included.
RECURSIVE SubValues(_)
SubValues(v) ==
  {v} \cup
  (IF v.tag = "Object"
   THEN UNION {SubValues(v.entries[i].value) : i \in 1..Len(v.entries)}
   ELSE IF v.tag = "Array"
   THEN UNION {SubValues(v.items[i]) : i \in 1..Len(v.items)}
   ELSE {})

\* The keys of map_a at which the two maps diverge: absent from map_b, or paired
\* with a value of another shape.
DivergentKeys(map_a, map_b) ==
  {k \in KeySet(map_a) :
     \/ k \notin KeySet(map_b)
     \/ ~ShapeEqual(ValueAt(map_a, k), ValueAt(map_b, k))}
FirstKey(ks) == CHOOSE k \in ks : \A j \in ks : Rank(k) <= Rank(j)

\* C1: the comparator succeeds exactly on shape-equal values; in particular two
\* scalars of the same tag succeed whatever their values.
C1_SucceedsIffShapeEqual ==
  Returned => (result = Ok <=> ShapeEqual(body_client, body_actual))

C1_Witness ==
  /\ Returned /\ result = Ok /\ BothObjects
  /\ body_client # body_actual
  /\ Len(body_client.entries) = 2

\* C3: comparing a JSON tree with itself succeeds.
C3_Reflexive ==
  (Returned /\ body_client = body_actual) => result = Ok

C3_Witness ==
  /\ Returned /\ body_client = body_actual /\ result = Ok
  /\ BothObjects /\ Len(body_client.entries) = 2
  /\ body_client.entries[1].value.tag = "Array"

\* C5: wherever the comparator meets two arrays of differing length, it goes no
\* further (nothing is visited afterwards) and the mismatch holds both arrays
\* in full.
C5_LengthMismatchCapturesArrays ==
  Returned =>
    \A i \in 1..Len(trace) :
      (/\ trace[i].ev = "compare_json_types"
       /\ trace[i].a.tag = "Array" /\ trace[i].b.tag = "Array"
       /\ Len(trace[i].a.items) # Len(trace[i].b.items))
      => /\ i = Len(trace)
         /\ result = JsonTypeMismatch(endpoint, trace[i].a, trace[i].b)

C5_Witness ==
  /\ Returned /\ BothArrays
  /\ Len(body_client.items) = 1 /\ Len(body_actual.items) = 2
  /\ body_client.items[1].tag # body_actual.items[1].tag
  /\ result = JsonTypeMismatch(endpoint, body_client, body_actual)
  /\ Len(trace) = 1

\* C6: wherever the comparator meets two values of different tags, it goes no
\* further and the mismatch holds both values in full, the candidate's as
\* client_value and the reference's as actual_value.
C6_TagMismatchCapturesValues ==
  Returned =>
    \A i \in 1..Len(trace) :
      (/\ trace[i].ev = "compare_json_types"
       /\ trace[i].a.tag # trace[i].b.tag)
      => /\ i = Len(trace)
         /\ result = JsonTypeMismatch(endpoint, trace[i].a, trace[i].b)

C6_Witness ==
  /\ Returned
  /\ body_client.tag = "Object" /\ body_actual.tag = "Array"
  /\ Len(body_client.entries) = 2 /\ Len(body_actual.items) = 2
  /\ result = JsonTypeMismatch(endpoint, body_client, body_actual)
  /\ Len(trace) = 1

\* The keys of map_a that come before key in the iteration order.
KeysBefore(map_a, key) == {j \in KeySet(map_a) : Rank(j) < Rank(key)}
PairsShapeEqual(map_a, map_b, ks) ==
  \A j \in ks : j \in KeySet(map_b) /\ ShapeEqual(ValueAt(map_a, j), ValueAt(map_b, j))

\* C4 as stated: whenever object a holds a key that object b lacks, the result is
\* the mismatch located at such a key k (the comparison ends in a's loop at k),
\* with reference-side value Null and client-side value a's value at k.
C4_Original ==
  (Returned /\ BothObjects
     /\ KeySet(body_client.entries) \ KeySet(body_actual.entries) # {})
  => \E k \in KeySet(body_client.entries) \ KeySet(body_actual.entries) :
       /\ result = JsonTypeMismatch(endpoint, ValueAt(body_client.entries, k), Null)
       /\ trace[Len(trace)] = LoopA(k)

\* C4 as amended: the mismatch is the one at key k when k is the first key of a,
\* in key order, at which the two objects diverge: every key of a before k is in
\* b with a shape-equal value.
C4_MissingKeyFirstDivergence ==
  (Returned /\ BothObjects) =>
    \A k \in KeySet(body_client.entries) \ KeySet(body_actual.entries) :
      PairsShapeEqual(body_client.entries, body_actual.entries,
                      KeysBefore(body_client.entries, k))
      => /\ result = JsonTypeMismatch(endpoint, ValueAt(body_client.entries, k), Null)
         /\ trace[Len(trace)] = LoopA(k)

C4_Witness ==
  /\ Returned /\ BothObjects
  /\ KeySet(body_client.entries) = {"id", "name"}
  /\ KeySet(body_actual.entries) = {"id"}
  /\ ValueAt(body_client.entries, "id") # ValueAt(body_actual.entries, "id")
  /\ ValueAt(body_client.entries, "name").tag = "Array"
  /\ result = JsonTypeMismatch(endpoint, ValueAt(body_client.entries, "name"), Null)

LoopEvents(t) == SelectSeq(t, LAMBDA e : e.ev # "compare_json_types")
Flat(map) == \A i \in 1..Len(map) : map[i].value.tag # "Object"
MapKeys(map) == [i \in 1..Len(map) |-> map[i].key]
IsPrefix(xs, ys) == Len(xs) <= Len(ys) /\ \A i \in 1..Len(xs) : xs[i] = ys[i]

\* C9: two objects are compared over a's keys first, in key order, and over b's
\* keys only afterwards; the comparison stops at the first divergence in that
\* order with one mismatch.  So a divergence at a key of a (a missing key or a
\* nested mismatch) is what is reported, whatever keys only b holds; a key only b
\* holds is reported when a's keys show no divergence, with client value Null
\* and reference value b's value at that key.
C9_ObjectOrder ==
  (Returned /\ BothObjects) =>
    LET map_a == body_client.entries
        map_b == body_actual.entries
        div == DivergentKeys(map_a, map_b)
        extra == KeySet(map_b) \ KeySet(map_a)
        loops == LoopEvents(trace)
        as == SelectSeq(loops, LAMBDA e : e.ev = "for_map_a")
        bs == SelectSeq(loops, LAMBDA e : e.ev = "for_map_b")
    IN
    /\ div # {} =>
         LET k == FirstKey(div) IN
         /\ k \in KeySet(map_b) =>
              /\ IsMismatch(result)
              /\ result = compare_json_types(ValueAt(map_a, k), ValueAt(map_b, k), endpoint).res
         /\ k \notin KeySet(map_b) =>
              result = JsonTypeMismatch(endpoint, ValueAt(map_a, k), Null)
    /\ (div = {} /\ extra # {}) =>
         result = JsonTypeMismatch(endpoint, Null, ValueAt(map_b, FirstKey(extra)))
    /\ (div = {} /\ extra = {}) => result = Ok
    /\ (Flat(map_a) /\ Flat(map_b)) =>
         /\ loops = as \o bs
         /\ IsPrefix([i \in 1..Len(as) |-> as[i].key], MapKeys(map_a))
         /\ IsPrefix([i \in 1..Len(bs) |-> bs[i].key], MapKeys(map_b))
         /\ bs # <<>> => Len(as) = Len(map_a)
         /\ div # {} => as[Len(as)].key = FirstKey(div) /\ bs = <<>>

C9_Witness ==
  /\ Returned /\ BothObjects
  /\ KeySet(body_client.entries) = {"name"}
  /\ KeySet(body_actual.entries) = {"id", "name"}
  /\ ValueAt(body_client.entries, "name").tag = "Object"
  /\ ValueAt(body_actual.entries, "name").tag = "Object"
  /\ IsMismatch(result)
  /\ result.client_value = String("1") /\ result.actual_value = Number(1)

(***************************************************************************)
(* Properties of Tester::compare and RequestClient::request.               *)
(***************************************************************************)
ComparatorInvoked == trace # <<>>
SentTo(to) == {i \in 1..Len(sent) : sent[i].to = to}
ClientUrl == Url(ClientBaseUrl, endpoint)
ActualUrl == Url(ActualBaseUrl, endpoint)

\* C2: the comparator runs only after both requests have returned a response and
\* both bodies have been parsed, on exactly those two parsed bodies; when a
\* request or a parse fails, compare returns the error of that step at once
\* (nothing further is sent or parsed), the comparator is never invoked and no
\* mismatch is produced.  (A request that panics while it is built returns no
\* error at all; then too the comparator is never invoked.)
C2_ComparatorOnlyAfterBothParsed ==
  /\ ComparatorInvoked =>
       /\ Len(sent) = 2
       /\ response_client.some /\ response_client.value.is_json
       /\ response_actual.some /\ response_actual.value.is_json
       /\ body_client = response_client.value.document
       /\ body_actual = response_actual.value.document
       /\ trace[1] = Visit(body_client, body_actual)
  /\ IsMismatch(result) => ComparatorInvoked
  /\ pc = "panicked" => ~ComparatorInvoked /\ result = Panic
  /\ pc = "returned" =>
       /\ ~response_client.some =>
            /\ result = TransportError("request", ClientUrl)
            /\ Len(sent) = 1 /\ ~ComparatorInvoked
       /\ (response_client.some /\ ~response_actual.some) =>
            /\ result = TransportError("request", ActualUrl)
            /\ body_client = None /\ ~ComparatorInvoked
       /\ (response_client.some /\ response_actual.some
             /\ ~response_client.value.is_json) =>
            /\ result = TransportError("decode", ClientUrl)
            /\ body_client = None /\ body_actual = None /\ ~ComparatorInvoked
       /\ (response_client.some /\ response_actual.some
             /\ response_client.value.is_json /\ ~response_actual.value.is_json) =>
            /\ result = TransportError("decode", ActualUrl)
            /\ body_actual = None /\ ~ComparatorInvoked

C2_Witness ==
  /\ Returned
  /\ body_client = ScenarioCandidate
  /\ response_actual = Some(NotJson)
  /\ result = TransportError("decode", ActualUrl)
  /\ ~ComparatorInvoked

\* C8: request() with GET or DELETE and a body that cannot be encoded as a query
\* string returns a serialization error to the caller, and nothing is sent.
C8_SerializationErrorReturned ==
  (/\ method \in {"GET", "DELETE"}
   /\ body.some /\ ~UrlEncodable(body.value)
   /\ pc # "request_client")
  => /\ Returned
     /\ result # None /\ result.variant = "SerializationError"
     /\ sent = <<>>

\* C10: each backend is sent at most one request, made from the method, endpoint
\* and body given to compare (the same payload to both); the candidate is
\* contacted first and the reference only once the candidate's response has
\* arrived, so after a failed candidate request the reference is never
\* contacted, and nothing is sent again after a failure.
C10_OneRequestPerBackendInOrder ==
  /\ Cardinality(SentTo("client")) <= 1
  /\ Cardinality(SentTo("actual")) <= 1
  /\ \A i \in 1..Len(sent) :
       /\ sent[i].args = <<method, endpoint, body>>
       /\ sent[i].method = method
       /\ sent[i].url = Url(BaseUrl(sent[i].to), endpoint)
       /\ method \in {"POST", "PUT"} => sent[i].json = body /\ sent[i].query = None
       /\ (method \in {"GET", "DELETE"} /\ body.some) =>
            /\ sent[i].query = Some(<<"data", UrlEncode(body.value)>>)
            /\ sent[i].json = None
       /\ \A j \in 1..Len(sent) :
            sent[i].query = sent[j].query /\ sent[i].json = sent[j].json
  /\ Len(sent) >= 1 => sent[1].to = "client"
  /\ Len(sent) >= 2 => sent[2].to = "actual" /\ response_client.some
  /\ (IsTransportError(result) /\ ~response_client.some) => SentTo("actual") = {}
  /\ pc \in {"returned", "panicked"} => ~ENABLED Next

C10_Witness ==
  /\ Returned
  /\ method = "POST" /\ body.some
  /\ Len(sent) = 1 /\ sent[1].to = "client" /\ sent[1].json = body
  /\ result = TransportError("request", ClientUrl)

====
